---- MODULE Spec2Model ----
(***************************************************************************)
(* TasksCompleted backend: registration/login with hashed passwords and    *)
(* bearer tokens, per-user task CRUD, the seed script and process start.   *)
(*                                                                         *)
(* src/backend/src/app.js holds two servers over the same database: the    *)
(* earlier one (lines 30-291, routes on `app`, here app = "legacy") and    *)
(* the current one (lines 293-597, routes on `router`, here                *)
(* app = "router").  A behaviour runs one of them; prisma/seed.js is a     *)
(* separate script on the same store.                                      *)
(*                                                                         *)
(* The clock counts periods of seven days, the default token lifetime.     *)
(* The store (Prisma and the database) executes each statement atomically  *)
(* and rejects an insert of a taken email.  A handler is one step, except  *)
(* POST /auth/register, which is split at the await between its lookup and *)
(* its insert so that two registrations can interleave.  The only          *)
(* exceptions modelled are the ones the code itself can cause: the unique  *)
(* constraint, jwt.sign without a secret, jwt.verify, prisma.$connect.     *)
(* SIGINT/SIGTERM handling, GET /, GET /health and GET /users are left out.*)
(***************************************************************************)
EXTENDS Integers, Sequences, FiniteSets, Bags, TLC

\* ---------------------------------------------------------------- bounds
MaxUsers == 2
MaxTasks == 2
MaxNow == 1
MaxInFlight == 2
MaxSeedRuns == 2

\* ------------------------------------------------------------ input sets
Emails == {"a@x", "b@x"}
SeedEmail == "admin@taskscompleted.com"
SeedPassword == "admin123"
RegisterPasswords == {"", "p"}
LoginPasswords == {"", "p", "q"}
Names == {"", "Ann"}
Secrets == {"", "s3cret"}
WrongSecret == "guess"
NodeEnvs == {"development", "production"}
ExpiresInSettings == {"", "0"}
UserIds == 1..MaxUsers

\* Titles as character sequences; " " is the whitespace character.
TitleInputs == {<<>>, <<" ">>, <<"a">>, <<" ", "a", " ">>}

\* JSON values a client may send as `completed`.
JsonValues == {[k |-> "bool", b |-> TRUE, s |-> ""],
               [k |-> "bool", b |-> FALSE, s |-> ""],
               [k |-> "string", b |-> FALSE, s |-> "false"]}

\* ------------------------------------------------------- pure functions
RECURSIVE TrimStart(_)
TrimStart(s) ==
    IF s = <<>> THEN s
    ELSE IF Head(s) = " " THEN TrimStart(Tail(s)) ELSE s

RECURSIVE TrimEnd(_)
TrimEnd(s) ==
    IF s = <<>> THEN s
    ELSE IF s[Len(s)] = " " THEN TrimEnd(SubSeq(s, 1, Len(s) - 1)) ELSE s

\* String(title).trim()
Trim(s) == TrimEnd(TrimStart(s))

\* Boolean(completed)
ToBoolean(v) == IF v.k = "bool" THEN v.b ELSE v.s # ""

\* Number(req.params.id): a path segment is digits or other text.
NaN == -1
ToNumber(p) == IF p.digits THEN p.n ELSE NaN

\* bcrypt.hash(password, 10): a value that is not the plaintext and that only
\* bcrypt.compare relates to it.
BcryptHash(p) == [hashed |-> TRUE, text |-> p]

\* A password column written without hashing.
Plaintext(p) == [hashed |-> FALSE, text |-> p]

\* bcrypt.compare(password, user.password): false when the stored value is no hash.
BcryptCompare(p, stored) == stored.hashed /\ stored.text = p

\* jsonwebtoken's timespan of an expiresIn setting, in periods of seven days.
Timespan(s) == IF s = "0" THEN 0 ELSE 1

\* The signature binds the payload to the key it was made with.
Mac(key, sub, role, exp) == [key |-> key, sub |-> sub, role |-> role, exp |-> exp]

NoMac == Mac("", 0, "", 0)
NoToken == [form |-> "none", sub |-> 0, role |-> "", exp |-> 0, mac |-> NoMac]
Garbage == [form |-> "garbage", sub |-> 0, role |-> "", exp |-> 0, mac |-> NoMac]
EmptyToken == [form |-> "empty", sub |-> 0, role |-> "", exp |-> 0, mac |-> NoMac]

\* jwt.sign throws without a secret.
CanSign(secret) == secret # ""

\* jwt.sign({sub, role}, secret, {expiresIn}) at time t
JwtSign(sub, role, secret, expiresIn, t) ==
    [form |-> "jwt", sub |-> sub, role |-> role, exp |-> t + Timespan(expiresIn),
     mac |-> Mac(secret, sub, role, t + Timespan(expiresIn))]

\* A verifier that forgets the expiry.
JwtVerifyIgnoringExpiry(token, secret, t) ==
    /\ secret # ""
    /\ token.form = "jwt"
    /\ token.mac = Mac(secret, token.sub, token.role, token.exp)

\* jwt.verify(token, secret) at time t: throws unless the token is well formed,
\* signed with the secret over this payload, and t is before exp.
JwtVerify(token, secret, t) ==
    /\ secret # ""
    /\ token.form = "jwt"
    /\ token.mac = Mac(secret, token.sub, token.role, token.exp)
    /\ t < token.exp

\* ------------------------------------------------------------------ state
VARIABLES
    app,            \* which server of app.js runs: "legacy" or "router"
    env,            \* process.env: JWT_SECRET, NODE_ENV, JWT_EXPIRES_IN
    phase,          \* "boot", "connected", "listening", "exited"
    exitCode,       \* process exit code, -1 while running
    users,          \* rows of the user table
    tasks,          \* rows of the task table
    nextTaskId,     \* the task table's autoincrement
    companies,      \* number of rows of the company table (seed script)
    now,            \* the clock
    pending,        \* registrations between their lookup and their insert
    issued,         \* history: every token a response has carried
    registered,     \* history: emails a registration answered 201 for
    resp            \* the last HTTP response, with notes on its request

vars == <<app, env, phase, exitCode, users, tasks, nextTaskId, companies, now,
          pending, issued, registered, resp>>

store == <<users, tasks, nextTaskId, companies>>

\* The role of a user created without one: USER of the data model's roles.
DefaultRole == "USER"

\* The user table's autoincrement; users are never deleted.
NextUserId == Cardinality(users) + 1

\* A response.  status, error and detail are what the client sees; token says
\* whether the body carries a token (the token itself is recorded in `issued`)
\* and rowOwners is the set of userId values of the rows in the body.  The rest
\* are notes on the request that was answered: auth is how the client came by
\* its Authorization header, caller the subject of the token in it, req what
\* the body held, met what the request met in the store.
Response(op, status, error) ==
    [op |-> op, status |-> status, error |-> error, detail |-> "",
     token |-> FALSE, rowOwners |-> {},
     auth |-> "", caller |-> 0, req |-> "", met |-> ""]

Init ==
    /\ app \in {"legacy", "router"}
    /\ env \in [JWT_SECRET : Secrets, NODE_ENV : NodeEnvs,
                JWT_EXPIRES_IN : ExpiresInSettings]
    /\ app = "legacy" => env.NODE_ENV = "development"  \* only the router reads it
    /\ phase = "boot"
    /\ exitCode = -1
    /\ users = {}
    /\ tasks = {}
    /\ nextTaskId = 1
    /\ companies = 0
    /\ now = 0
    /\ pending = EmptyBag
    /\ issued = {}
    /\ registered = {}
    /\ resp = Response("", 0, "")

\* process.env.JWT_EXPIRES_IN || "7d"
ExpiresIn == IF env.JWT_EXPIRES_IN = "" THEN "7d" ELSE env.JWT_EXPIRES_IN

\* --------------------------------------------------------- store queries
\* A lookup that finds nobody.
FindNobody(email) == {}

\* prisma.user.findUnique({ where: { email } })
FindUserByEmail(email) == {u \in users : u.email = email}

\* The unique-email constraint of prisma.user.create (error P2002).
UniqueViolation(email) == \E u \in users : u.email = email

\* A lookup by id alone.
FindTaskById(id, uid) == {t \in tasks : t.id = id}

\* prisma.task.findFirst({ where: { id, userId } })
FindFirstTask(id, uid) == {t \in tasks : t.id = id /\ t.userId = uid}

\* prisma.task.findMany({ where: { userId } })
FindManyTasks(uid) == {t \in tasks : t.userId = uid}

NewUser(email, password, name, role) ==
    [id |-> NextUserId, email |-> email, password |-> password,
     name |-> name, role |-> role]

\* Room for one more user row within the model's bounds.
UserRoom == Cardinality(users) + BagCardinality(pending) < MaxUsers

\* ------------------------------------------------------ process lifecycle
\* start(): the secret check, then prisma.$connect(), which may throw.
Start ==
    /\ app = "router"
    /\ phase = "boot"
    /\ IF env.JWT_SECRET = ""
       THEN phase' = "exited" /\ exitCode' = 1
       ELSE \/ phase' = "connected" /\ exitCode' = exitCode
            \/ phase' = "exited" /\ exitCode' = 1
    /\ UNCHANGED <<app, env, store, now, pending, issued, registered, resp>>

\* The earlier start(): a missing secret is only warned about.
LegacyStart ==
    /\ app = "legacy"
    /\ phase = "boot"
    /\ \/ phase' = "connected" /\ exitCode' = exitCode
       \/ phase' = "exited" /\ exitCode' = 1
    /\ UNCHANGED <<app, env, store, now, pending, issued, registered, resp>>

\* app.listen(PORT)
Listen ==
    /\ phase = "connected"
    /\ phase' = "listening"
    /\ UNCHANGED <<app, env, exitCode, store, now, pending, issued, registered, resp>>

\* Time passes.
Tick ==
    /\ now < MaxNow
    /\ now' = now + 1
    /\ UNCHANGED <<app, env, phase, exitCode, store, pending, issued, registered, resp>>

\* prisma/seed.js main(): a company, then the admin user with the password as
\* written; a taken email makes user.create throw after the company exists.
Seed ==
    /\ companies < MaxSeedRuns
    /\ UserRoom \/ UniqueViolation(SeedEmail)
    /\ companies' = companies + 1
    /\ users' = IF UniqueViolation(SeedEmail) THEN users
                ELSE users \cup {NewUser(SeedEmail, Plaintext(SeedPassword),
                                         "Admin", "ADMIN")}
    /\ UNCHANGED <<app, env, phase, exitCode, tasks, nextTaskId, now, pending,
                   issued, registered, resp>>

\* ------------------------------------------------------------- auth guard
\* The Authorization headers a client may send.  `kind` notes how the client
\* came by the header; the guard reads only `type` and `token`, the first two
\* parts of header.split(" ").
Header(kind, type, token) == [kind |-> kind, type |-> type, token |-> token]

LiveTokens == {t \in issued : now < t.exp}

\* An issued token with its payload edited and its signature kept.
TamperedTokens ==
    {[t EXCEPT !.sub = (t.sub % MaxUsers) + 1] : t \in issued} \cup
    {[t EXCEPT !.role = "ADMIN"] : t \in issued} \cup
    {[t EXCEPT !.exp = t.exp + 1] : t \in issued}

\* A token signed with a key that is not the service's.
ForgedTokens == {JwtSign(s, DefaultRole, WrongSecret, "7d", now) : s \in UserIds}

Headers ==
    {Header("valid", "Bearer", t) : t \in LiveTokens} \cup
    {Header("expired", "Bearer", t) : t \in issued \ LiveTokens} \cup
    {Header("tampered", "Bearer", t) : t \in TamperedTokens \ issued} \cup
    {Header("forged", "Bearer", t) : t \in ForgedTokens} \cup
    {Header("malformed", "Bearer", Garbage)} \cup
    {Header("absent", "", NoToken), Header("absent", "Bearer", NoToken),
     Header("absent", "Bearer", EmptyToken)} \cup
    {Header("scheme", s, t) : s \in {"Basic", "bearer"}, t \in LiveTokens}

\* auth(req, res, next): the identity attached to the request, or the 401.
Auth(h) ==
    IF h.type # "Bearer" \/ h.token.form \in {"none", "empty"}
    THEN [ok |-> FALSE, id |-> 0, role |-> "", error |-> "Token requerido (Bearer)"]
    ELSE IF JwtVerify(h.token, env.JWT_SECRET, now)
    THEN [ok |-> TRUE, id |-> h.token.sub, role |-> h.token.role, error |-> ""]
    ELSE [ok |-> FALSE, id |-> 0, role |-> "", error |-> "Token invalido o expirado"]

\* The routes behind the guard.
ProtectedRoutes == {"me", "list", "create", "patch", "delete"}

\* The guard answers 401 and does not call next(): the route's handler does not
\* run.  The handlers below are the steps of the requests the guard lets through.
AuthReject(route, h) ==
    /\ phase = "listening"
    /\ ~Auth(h).ok
    /\ resp' = [Response(route, 401, Auth(h).error) EXCEPT !.auth = h.kind]
    /\ UNCHANGED <<app, env, phase, exitCode, store, now, pending, issued, registered>>

\* ------------------------------------------------------------------ users
\* router.post("/users"): development only, hashes the password.
PostUsers(email, password, name) ==
    /\ phase = "listening"
    /\ app = "router"
    /\ IF env.NODE_ENV # "development"
       THEN resp' = Response("users", 404, "Not found") /\ users' = users
       ELSE IF email = "" \/ password = "" \/ name = ""
       THEN /\ resp' = Response("users", 400, "email, password y name son obligatorios")
            /\ users' = users
       ELSE IF UniqueViolation(email)
       THEN resp' = Response("users", 409, "Ese email ya existe") /\ users' = users
       ELSE /\ UserRoom
            /\ users' = users \cup {NewUser(email, BcryptHash(password), name, DefaultRole)}
            /\ resp' = Response("users", 201, "")
    /\ UNCHANGED <<app, env, phase, exitCode, tasks, nextTaskId, companies, now,
                   pending, issued, registered>>

\* app.post("/users"): stores the password as sent.
LegacyPostUsers(email, password, name) ==
    /\ phase = "listening"
    /\ app = "legacy"
    /\ IF email = "" \/ password = "" \/ name = ""
       THEN /\ resp' = Response("users", 400, "email, password y name son obligatorios")
            /\ users' = users
       ELSE IF UniqueViolation(email)
       THEN resp' = Response("users", 409, "Ese email ya existe") /\ users' = users
       ELSE /\ UserRoom
            /\ users' = users \cup {NewUser(email, Plaintext(password), name, DefaultRole)}
            /\ resp' = Response("users", 201, "")
    /\ UNCHANGED <<app, env, phase, exitCode, tasks, nextTaskId, companies, now,
                   pending, issued, registered>>

\* ------------------------------------------------------------------- auth
\* How a registration request relates to what the service answered before:
\* "again" when a registration of this email has been answered 201.
RegisterNote(email, password, name) ==
    IF email \in registered
    THEN (IF password = "" \/ name = "" THEN "again, incomplete" ELSE "again")
    ELSE "first"

\* POST /auth/register up to the await of findUnique: validation, then the lookup.
RegisterFind(email, password, name) ==
    /\ phase = "listening"
    /\ IF email = "" \/ password = "" \/ name = ""
       THEN /\ resp' = [Response("register", 400, "email, password y name son obligatorios")
                          EXCEPT !.req = RegisterNote(email, password, name)]
            /\ pending' = pending
       ELSE IF FindUserByEmail(email) # {}
       THEN /\ resp' = [Response("register", 409, "Ese email ya existe")
                          EXCEPT !.req = RegisterNote(email, password, name)]
            /\ pending' = pending
       ELSE /\ UserRoom
            /\ BagCardinality(pending) < MaxInFlight
            /\ pending' = pending (+) SetToBag({[email |-> email, password |-> password,
                                                 name |-> name,
                                                 note |-> RegisterNote(email, password, name)]})
            /\ resp' = resp
    /\ UNCHANGED <<app, env, phase, exitCode, store, now, issued, registered>>

\* POST /auth/register from bcrypt.hash on: the insert, the token, the response.
\* Every exception ends in the handler's catch: 500 with the exception's message.
RegisterCreate(r) ==
    /\ phase = "listening"
    /\ BagIn(r, pending)
    /\ pending' = pending (-) SetToBag({r})
    /\ IF UniqueViolation(r.email)
       THEN /\ resp' = [Response("register", 500, "Error en register") EXCEPT
                  !.detail = "Unique constraint failed", !.req = r.note,
                  !.met = "email taken at insert"]
            /\ UNCHANGED <<users, issued, registered>>
       ELSE /\ users' = users \cup {NewUser(r.email, BcryptHash(r.password), r.name,
                                            DefaultRole)}
            /\ IF CanSign(env.JWT_SECRET)
               THEN /\ issued' = issued \cup
                          {JwtSign(NextUserId, DefaultRole, env.JWT_SECRET, ExpiresIn, now)}
                    /\ registered' = registered \cup {r.email}
                    /\ resp' = [Response("register", 201, "") EXCEPT
                          !.req = r.note, !.token = TRUE]
               ELSE /\ resp' = [Response("register", 500, "Error en register") EXCEPT
                          !.detail = "secretOrPrivateKey must have a value",
                          !.req = r.note]
                    /\ UNCHANGED <<issued, registered>>
    /\ UNCHANGED <<app, env, phase, exitCode, tasks, nextTaskId, companies, now>>

\* A login that tells the client the email is unknown.
LoginUserNotFound == Response("login", 404, "Usuario no encontrado")

\* The 401 of a login for an email that is not in the store.
LoginUnknownEmail == Response("login", 401, "Credenciales invalidas")

\* The 401 of a login whose password bcrypt.compare does not accept.
LoginRejectedPassword == Response("login", 401, "Credenciales invalidas")

\* What a login request sent, against the user table: the email is unknown, or
\* the password is or is not the one the user was created with.
LoginNote(email, password) ==
    IF \A u \in users : u.email # email THEN "unknown email"
    ELSE IF \E u \in users : u.email = email /\ u.password.text = password
    THEN "right password" ELSE "wrong password"

\* POST /auth/login
Login(email, password) ==
    /\ phase = "listening"
    /\ IF email = "" \/ password = ""
       THEN /\ resp' = [Response("login", 400, "email y password son obligatorios")
                          EXCEPT !.req = "incomplete"]
            /\ issued' = issued
       ELSE IF FindUserByEmail(email) = {}
       THEN /\ resp' = [LoginUnknownEmail EXCEPT !.req = LoginNote(email, password)]
            /\ issued' = issued
       ELSE LET user == CHOOSE u \in FindUserByEmail(email) : TRUE IN
            IF ~BcryptCompare(password, user.password)
            THEN /\ resp' = [LoginRejectedPassword EXCEPT
                       !.req = LoginNote(email, password)]
                 /\ issued' = issued
            ELSE IF CanSign(env.JWT_SECRET)
            THEN /\ resp' = [Response("login", 200, "") EXCEPT
                       !.req = LoginNote(email, password), !.token = TRUE]
                 /\ issued' = issued \cup
                       {JwtSign(user.id, user.role, env.JWT_SECRET, ExpiresIn, now)}
            ELSE /\ resp' = [Response("login", 500, "Error en login") EXCEPT
                       !.detail = "secretOrPrivateKey must have a value",
                       !.req = LoginNote(email, password)]
                 /\ issued' = issued
    /\ UNCHANGED <<app, env, phase, exitCode, store, now, pending, registered>>

\* GET /me
GetMe(h) ==
    /\ phase = "listening"
    /\ Auth(h).ok
    /\ resp' = [Response("me", 200, "") EXCEPT !.auth = h.kind, !.caller = h.token.sub]
    /\ UNCHANGED <<app, env, phase, exitCode, store, now, pending, issued, registered>>

\* ------------------------------------------------------------------ tasks
\* Request bodies of POST /tasks and PATCH /tasks/:id.  A field that is not
\* sent is `undefined`; userId = 0 stands for no userId field.
TaskBodies ==
    [hasTitle : BOOLEAN, title : TitleInputs, hasCompleted : BOOLEAN,
     completed : JsonValues, userId : 0..MaxUsers]

Bodies ==
    {b \in TaskBodies : /\ ~b.hasTitle => b.title = <<>>
                        /\ ~b.hasCompleted => b.completed.k = "bool" /\ ~b.completed.b}

\* POST /tasks reads the title alone; what else the body holds is not looked at.
PostBodies == {b \in Bodies : ~b.hasCompleted}

\* The :id path segments a client may send.
PathIds == {[digits |-> TRUE, n |-> i] : i \in 1..MaxTasks} \cup
           {[digits |-> FALSE, n |-> 0]}

\* An owner taken from the body when it names one.
NewTaskOwnerFromBody(caller, body) == IF body.userId # 0 THEN body.userId ELSE caller

\* data.userId of prisma.task.create: req.user.id.
NewTaskOwner(caller, body) == caller

\* How the body's owner field relates to the caller.
OwnerNote(h, body) ==
    IF body.userId # 0 /\ body.userId # h.token.sub THEN "names another owner" ELSE ""

\* How the task a request names relates to the caller.
TargetNote(h, id) ==
    IF \A t \in tasks : t.id # id THEN "no such task"
    ELSE IF \E t \in tasks : t.id = id /\ t.userId = h.token.sub THEN "own task"
    ELSE "another user's task"

\* What a PATCH body holds, as far as the no-fields rule goes.
BodyNote(body) == IF ~body.hasTitle /\ ~body.hasCompleted THEN "no fields" ELSE "fields"

\* GET /tasks
GetTasks(h) ==
    /\ phase = "listening"
    /\ Auth(h).ok
    /\ resp' = [Response("list", 200, "") EXCEPT
          !.auth = h.kind, !.caller = h.token.sub,
          !.rowOwners = {t.userId : t \in FindManyTasks(Auth(h).id)}]
    /\ UNCHANGED <<app, env, phase, exitCode, store, now, pending, issued, registered>>

\* The insert of POST /tasks and its 201.
CreateTask(h, body, title) ==
    /\ nextTaskId <= MaxTasks
    /\ tasks' = tasks \cup {[id |-> nextTaskId, title |-> title, completed |-> FALSE,
                             userId |-> NewTaskOwner(Auth(h).id, body)]}
    /\ nextTaskId' = nextTaskId + 1
    /\ resp' = [Response("create", 201, "") EXCEPT
          !.auth = h.kind, !.caller = h.token.sub, !.req = OwnerNote(h, body)]

\* router.post("/tasks")
PostTask(h, body) ==
    /\ phase = "listening"
    /\ app = "router"
    /\ Auth(h).ok
    /\ IF ~body.hasTitle \/ body.title = <<>>
       THEN /\ resp' = [Response("create", 400, "title es obligatorio") EXCEPT
                  !.auth = h.kind, !.caller = h.token.sub]
            /\ UNCHANGED <<tasks, nextTaskId>>
       ELSE CreateTask(h, body, Trim(body.title))
    /\ UNCHANGED <<app, env, phase, exitCode, users, companies, now, pending,
                   issued, registered>>

\* app.post("/tasks"): the title is stored as sent.
LegacyPostTask(h, body) ==
    /\ phase = "listening"
    /\ app = "legacy"
    /\ Auth(h).ok
    /\ IF ~body.hasTitle \/ body.title = <<>>
       THEN /\ resp' = [Response("create", 400, "title es obligatorio") EXCEPT
                  !.auth = h.kind, !.caller = h.token.sub]
            /\ UNCHANGED <<tasks, nextTaskId>>
       ELSE CreateTask(h, body, body.title)
    /\ UNCHANGED <<app, env, phase, exitCode, users, companies, now, pending,
                   issued, registered>>

\* prisma.task.update({ where: { id }, data }): only the keys of data change.
UpdateTask(t, hasTitle, title, hasCompleted, completed) ==
    [t EXCEPT !.title = IF hasTitle THEN title ELSE @,
              !.completed = IF hasCompleted THEN completed ELSE @]

\* The lookup, update and answer shared by both PATCH handlers.
PatchFound(h, id, body, title) ==
    IF FindFirstTask(id, Auth(h).id) = {}
    THEN /\ resp' = [Response("patch", 404, "Tarea no encontrada") EXCEPT
               !.auth = h.kind, !.req = BodyNote(body), !.met = TargetNote(h, id)]
         /\ tasks' = tasks
    ELSE LET existing == CHOOSE t \in tasks : t.id = id IN
         /\ tasks' = (tasks \ {existing}) \cup
               {UpdateTask(existing, body.hasTitle, title,
                           body.hasCompleted, ToBoolean(body.completed))}
         /\ resp' = [Response("patch", 200, "") EXCEPT
               !.auth = h.kind, !.req = BodyNote(body), !.met = TargetNote(h, id)]

\* router.patch("/tasks/:id")
PatchTask(h, p, body) ==
    /\ phase = "listening"
    /\ app = "router"
    /\ Auth(h).ok
    /\ IF ToNumber(p) = NaN
       THEN /\ resp' = [Response("patch", 400, "id invalido") EXCEPT
                  !.auth = h.kind, !.req = BodyNote(body),
                  !.met = TargetNote(h, ToNumber(p))]
            /\ tasks' = tasks
       ELSE IF ~body.hasTitle /\ ~body.hasCompleted
       THEN /\ resp' = [Response("patch", 400, "Nada que actualizar") EXCEPT
                  !.auth = h.kind, !.req = BodyNote(body),
                  !.met = TargetNote(h, ToNumber(p))]
            /\ tasks' = tasks
       ELSE PatchFound(h, ToNumber(p), body, Trim(body.title))
    /\ UNCHANGED <<app, env, phase, exitCode, users, nextTaskId, companies, now,
                   pending, issued, registered>>

\* app.patch("/tasks/:id"): no no-fields rule, the title is stored as sent.
LegacyPatchTask(h, p, body) ==
    /\ phase = "listening"
    /\ app = "legacy"
    /\ Auth(h).ok
    /\ IF ToNumber(p) = NaN
       THEN /\ resp' = [Response("patch", 400, "id invalido") EXCEPT
                  !.auth = h.kind, !.req = BodyNote(body),
                  !.met = TargetNote(h, ToNumber(p))]
            /\ tasks' = tasks
       ELSE PatchFound(h, ToNumber(p), body, body.title)
    /\ UNCHANGED <<app, env, phase, exitCode, users, nextTaskId, companies, now,
                   pending, issued, registered>>

\* DELETE /tasks/:id
DeleteTask(h, p) ==
    /\ phase = "listening"
    /\ Auth(h).ok
    /\ IF ToNumber(p) = NaN
       THEN /\ resp' = [Response("delete", 400, "id invalido") EXCEPT
                  !.auth = h.kind, !.met = TargetNote(h, ToNumber(p))]
            /\ tasks' = tasks
       ELSE IF FindFirstTask(ToNumber(p), Auth(h).id) = {}
       THEN /\ resp' = [Response("delete", 404, "Tarea no encontrada") EXCEPT
                  !.auth = h.kind, !.met = TargetNote(h, ToNumber(p))]
            /\ tasks' = tasks
       ELSE /\ tasks' = {t \in tasks : t.id # ToNumber(p)}
            /\ resp' = [Response("delete", 204, "") EXCEPT
                  !.auth = h.kind, !.met = TargetNote(h, ToNumber(p))]
    /\ UNCHANGED <<app, env, phase, exitCode, users, nextTaskId, companies, now,
                   pending, issued, registered>>

\* ---------------------------------------------------------- specifications
\* Process start, shared by every workload.
Boot == Start \/ LegacyStart \/ Listen

\* Registration, shared by every workload.
Register ==
    \/ \E e \in Emails \cup {""}, pw \in RegisterPasswords, n \in Names :
          RegisterFind(e, pw, n)
    \/ \E r \in BagToSet(pending) : RegisterCreate(r)

SignIn ==
    \E e \in Emails \cup {"", SeedEmail}, pw \in LoginPasswords \cup {SeedPassword} :
        Login(e, pw)

Guard == \E h \in Headers, route \in ProtectedRoutes : AuthReject(route, h)

Admitted == {h \in Headers : Auth(h).ok}

\* Accounts and sessions: every way a user row and a token come about, the
\* clock, the guard.
AccountNext ==
    \/ Boot
    \/ Tick
    \/ Seed
    \/ \E e \in Emails \cup {""}, pw \in RegisterPasswords, n \in Names :
          PostUsers(e, pw, n) \/ LegacyPostUsers(e, pw, n)
    \/ Register
    \/ SignIn
    \/ Guard
    \/ \E h \in Admitted : GetMe(h)

\* Tasks: users register and log in, then work on tasks.
TaskNext ==
    \/ Boot
    \/ Register
    \/ SignIn
    \/ Guard
    \/ \E h \in Admitted :
          \/ GetTasks(h)
          \/ \E b \in PostBodies : PostTask(h, b) \/ LegacyPostTask(h, b)
          \/ \E b \in Bodies, p \in PathIds :
                PatchTask(h, p, b) \/ LegacyPatchTask(h, p, b)
          \/ \E p \in PathIds : DeleteTask(h, p)

Next == AccountNext \/ TaskNext

Spec == Init /\ [][Next]_vars
AccountSpec == Init /\ [][AccountNext]_vars
TaskSpec == Init /\ [][TaskNext]_vars

\* ------------------------------------------------------------------ claims
\* C1 (as amended): GET /tasks returns only rows owned by the caller, and a
\* PATCH or DELETE of another user's task changes no task and is answered 404,
\* except that the router's PATCH answers 400 when the body holds neither title
\* nor completed, which it checks before it looks the task up.
C1_OthersTasksOutOfReach ==
    [][/\ resp'.op = "list" => resp'.rowOwners \subseteq {resp'.caller}
       /\ (resp'.op \in {"patch", "delete"} /\ resp'.met = "another user's task") =>
             /\ tasks' = tasks
             /\ resp'.status =
                   IF resp'.op = "patch" /\ resp'.req = "no fields" /\ app = "router"
                   THEN 400 ELSE 404]_vars

\* C1 as claimed: a PATCH or DELETE of another user's task is answered 404.
C1_OthersTaskAlways404 ==
    (resp.op \in {"patch", "delete"} /\ resp.met = "another user's task")
        => resp.status = 404

\* A PATCH with fields of another user's task has been answered 404.
C1_OthersTaskPatched ==
    /\ resp.op = "patch"
    /\ resp.met = "another user's task"
    /\ resp.req = "fields"
    /\ resp.status = 404

\* C2: a task row appears only through a create answered 201 and is owned by
\* the subject of the caller's token, whatever userId the body names; the owner
\* of a stored task never changes, whatever a PATCH body holds.
C2_OwnerBoundToCaller ==
    [][/\ \A t \in tasks, u \in tasks' : t.id = u.id => u.userId = t.userId
       /\ \A u \in tasks' : (\A t \in tasks : t.id # u.id) =>
             /\ resp'.op = "create"
             /\ resp'.status = 201
             /\ u.userId = resp'.caller]_vars

\* A create whose body named another user as owner has been answered 201 and
\* the caller owns a task.
C2_OtherOwnerNamed ==
    /\ resp.op = "create"
    /\ resp.status = 201
    /\ resp.req = "names another owner"
    /\ \E t \in tasks : t.userId = resp.caller

\* A header the service should admit: the Bearer scheme with a token it issued
\* that has not expired.
Genuine(h) == h.type = "Bearer" /\ h.token \in issued /\ now < h.token.exp

\* C3: the guard admits a header exactly when it is genuine, the identity it
\* attaches is the subject and role of the token, every other request to a
\* protected route is answered 401, and a 401 leaves store and tokens as they were.
C3_GuardAdmitsOnlyGenuine ==
    /\ [](\A h \in Headers :
            /\ Auth(h).ok <=> Genuine(h)
            /\ Auth(h).ok => Auth(h).id = h.token.sub /\ Auth(h).role = h.token.role)
    /\ [](resp.op \in ProtectedRoutes => (resp.status = 401 <=> resp.auth # "valid"))
    /\ [][(resp' # resp /\ resp'.op \in ProtectedRoutes /\ resp'.status = 401)
             => UNCHANGED <<store, issued, pending, registered>>]_vars

\* A request with an issued, expired token has been answered 401.
C3_ExpiredTokenRefused ==
    /\ resp.op \in ProtectedRoutes
    /\ resp.auth = "expired"
    /\ resp.status = 401

\* C4 (as amended): no two users share an email, and once a registration of an
\* email has been answered 201, a later registration of that email creates no
\* user, issues no token and is answered 409 when it carries a password and a
\* name, 400 when one of them is missing.
C4_RegisteredEmailRefused ==
    [][/\ \A u, v \in users' : u.email = v.email => u = v
       /\ (resp' # resp /\ resp'.op = "register"
              /\ resp'.req \in {"again", "again, incomplete"}) =>
             /\ resp'.status = IF resp'.req = "again" THEN 409 ELSE 400
             /\ ~resp'.token
             /\ users' = users
             /\ issued' = issued]_vars

\* C4 as claimed: every later registration of a registered email is answered 409.
C4_RegisteredEmailAlways409 ==
    (resp.op = "register" /\ resp.req \in {"again", "again, incomplete"})
        => resp.status = 409

\* A complete registration of an already registered email has been answered 409.
C4_RegisteredTwice ==
    /\ resp.op = "register"
    /\ resp.req = "again"
    /\ resp.status = 409

C6_NoFieldsIs400 ==
    (resp.op = "patch" /\ resp.met = "own task" /\ resp.req = "no fields")
        => resp.status = 400

\* C7: every stored title is non-empty and has no surrounding whitespace.
C7_TitlesTrimmedNonEmpty ==
    \A t \in tasks : t.title # <<>> /\ Trim(t.title) = t.title

\* C8: every stored password is a hash.
C8_PasswordsHashed == \A u \in users : u.password.hashed

\* C9: without a signing secret the process neither connects nor listens, and
\* when it has ended it has ended with exit code 1.
C9_NoSecretNoService ==
    env.JWT_SECRET = "" =>
        /\ phase \in {"boot", "exited"}
        /\ phase = "exited" => exitCode = 1

\* C10: a registration whose insert the unique-email constraint rejected is
\* answered 409.
C10_RacedRegistrationIs409 ==
    (resp.op = "register" /\ resp.met = "email taken at insert") => resp.status = 409

====
